---- MODULE Spec2Model ----
(***************************************************************************)
(* A model of the game recommender: AdvancedRecommender.recommend          *)
(* (advanced_recommender.py), build_recent_playtime_features               *)
(* (feature_builder.py) and the request pipeline _compute_recommendations  *)
(* (app.py).                                                               *)
(*                                                                         *)
(* Numbers.  Playtimes and weights are integers or the value NaN.  A float *)
(* array whose elements share a positive scale is kept as a record         *)
(*     [num |-> <<n1, ..., nk>>, den |-> d, rad |-> r]                     *)
(* standing for the values  n_i / (d * sqrt(r)),  d >= 1, r >= 1.  Exact   *)
(* rational arithmetic stands for float64 arithmetic: rounding error is    *)
(* not modelled.  Only NaN is modelled among the non-finite values.        *)
(***************************************************************************)
EXTENDS Integers, Sequences, FiniteSets, TLC

\* Number of catalog rows; the appids of the catalog are 1..NCatalog.
NCatalog == 3

\* The float nan, as a playtime_2weeks value or an array element.
NaN == -999999

AppIds == 1..NCatalog

\* The ids an activity row may carry: the catalog's and one the catalog lacks.
Ids == 1..(NCatalog + 1)

\* The norm of a non-empty TF-IDF row (TfidfVectorizer's default norm="l2"),
\* in the unit in which the rows below are written.
RowNorm == 5

\* TF-IDF rows over a vocabulary of two terms: norm RowNorm, or the zero row
\* of a text without vocabulary terms.
RowCycle == << <<5, 0>>, <<5, 0>>, <<3, 4>>, <<0, 0>>, <<0, 5>> >>

NTerms == Len(RowCycle[1])

\* The catalogs Init draws from: row i of catalog c is RowCycle[(i + c) mod 5].
CatalogOf(c) ==
    [i \in 1..NCatalog |->
        [appid |-> i, vec |-> RowCycle[((i + c) % Len(RowCycle)) + 1]]]

Catalogs == {CatalogOf(c) : c \in 0..(Len(RowCycle) - 1)}

---------------------------------------------------------------------------
\* Arithmetic helpers.

Abs(x) == IF x < 0 THEN -x ELSE x

MaxOf(a, b) == IF a >= b THEN a ELSE b

MinOf(a, b) == IF a <= b THEN a ELSE b

RECURSIVE SeqSum(_)
SeqSum(s) == IF s = <<>> THEN 0 ELSE Head(s) + SeqSum(Tail(s))

SeqMax(s) == CHOOSE x \in {s[i] : i \in DOMAIN s} : \A i \in DOMAIN s : s[i] <= x

SeqMin(s) == CHOOSE x \in {s[i] : i \in DOMAIN s} : \A i \in DOMAIN s : x <= s[i]

HasNaN(s) == \E i \in DOMAIN s : s[i] = NaN

Dot(a, b) == SeqSum([t \in DOMAIN a |-> a[t] * b[t]])

\* The subsequence of s at the indices satisfying keep, in order.
RECURSIVE Filter(_, _)
Filter(s, keep) ==
    IF s = <<>> THEN <<>>
    ELSE (IF keep[1] THEN <<Head(s)>> ELSE <<>>)
         \o Filter(Tail(s), [i \in 1..(Len(s) - 1) |-> keep[i + 1]])

Perms(n) ==
    {p \in [1..n -> 1..n] : \A i, j \in 1..n : i # j => p[i] # p[j]}

---------------------------------------------------------------------------
\* AdvancedRecommender.recommend

\* Candidates without the library mask.
CandidatesUnfiltered(cat, lib) == cat

\* Step 1: the catalog rows whose appid is not in the library, catalog order.
Candidates(cat, lib) ==
    Filter(cat, [i \in DOMAIN cat |-> cat[i].appid \notin lib])

\* self.catalog.index[m][0]: the first row with that appid, 0 when m.any()
\* is false.
Lookup(cat, aid) ==
    IF \E i \in DOMAIN cat : cat[i].appid = aid
    THEN CHOOSE i \in DOMAIN cat :
            /\ cat[i].appid = aid
            /\ \A j \in DOMAIN cat : cat[j].appid = aid => i <= j
    ELSE 0

\* The loop of profile_vec: the rows kept in idxs/weights.
Resolved(cat, rows) ==
    Filter(rows, [i \in DOMAIN rows |-> Lookup(cat, rows[i].appid) # 0])

\* The weight profile_vec appends for a row: the row's value, unchanged.
EntryWeight(wt) == wt

\* One component of mat.multiply(wts).sum(axis=0).  The sparse product
\* touches stored (non-zero) entries only, so a nan weight reaches a
\* component only through a row that is non-zero there.
ProfileComponent(cat, kept, t) ==
    LET x(i) == cat[Lookup(cat, kept[i].appid)].vec[t]
        w(i) == EntryWeight(kept[i].wt)
    IN  IF \E i \in DOMAIN kept : w(i) = NaN /\ x(i) # 0
        THEN NaN
        ELSE SeqSum([i \in DOMAIN kept |-> IF w(i) = NaN THEN 0 ELSE w(i) * x(i)])

\* profile_vec: None (some = FALSE) when no row resolves.  The common
\* denominator of the weights scales the profile and is dropped: cosine
\* similarity does not depend on it.
ProfileVec(cat, rows) ==
    LET kept == Resolved(cat, rows)
    IN  IF kept = <<>>
        THEN [some |-> FALSE, v |-> [t \in 1..NTerms |-> 0]]
        ELSE [some |-> TRUE,
              v |-> [t \in 1..NTerms |-> ProfileComponent(cat, kept, t)]]

\* cosine_similarity raises ValueError on an input holding nan.
CosineRaises(prof) == prof.some /\ HasNaN(prof.v)

\* sims_me / sims_fr: zeros when the profile is None, else the cosine of the
\* profile with every candidate row: dot / (|row| * |profile|), and 0 for a
\* zero row or a zero profile.
Similarities(prof, cands) ==
    IF ~prof.some \/ Dot(prof.v, prof.v) = 0
    THEN [num |-> [i \in DOMAIN cands |-> 0], den |-> 1, rad |-> 1]
    ELSE [num |-> [i \in DOMAIN cands |-> Dot(prof.v, cands[i].vec)],
          den |-> RowNorm, rad |-> Dot(prof.v, prof.v)]

\* fr_map keeping the first row of an appid instead of the last.
FrMapGetFirst(rows, aid) ==
    IF \E i \in DOMAIN rows : rows[i].appid = aid
    THEN LET first == CHOOSE i \in DOMAIN rows :
                        /\ rows[i].appid = aid
                        /\ \A j \in DOMAIN rows : rows[j].appid = aid => i <= j
         IN  rows[first].wt
    ELSE 0

\* fr_map.get(aid, 0.0): set_index(...).to_dict() keeps, for an appid that
\* several rows carry, the value of the last of them.
FrMapGet(rows, aid) ==
    IF \E i \in DOMAIN rows : rows[i].appid = aid
    THEN LET last == CHOOSE i \in DOMAIN rows :
                        /\ rows[i].appid = aid
                        /\ \A j \in DOMAIN rows : rows[j].appid = aid => j <= i
         IN  rows[last].wt
    ELSE 0

\* raw_fr
RawFriends(fr, cands) ==
    [num |-> [i \in DOMAIN cands |-> FrMapGet(fr.rows, cands[i].appid)],
     den |-> fr.den, rad |-> 1]

\* max_val == min_val in place of np.isclose.
IsExactlyEqual(mx, mn, den, rad) == mx = mn

\* np.isclose(max_val, min_val): |max - min| <= 1e-8 + 1e-5 * |min|, for
\* max = mx / (den * sqrt(rad)) and min = mn / (den * sqrt(rad)).  With
\* D = mx - mn and L = 1e5 * D - |mn| this is  1000 * L <= den * sqrt(rad).
\* L <= 0 is D <= |mn| div 1e5; L is computed only when it can be at most
\* X = (den * rad) div 1000, which 1000 * L <= den * sqrt(rad) implies.
IsClose(mx, mn, den, rad) ==
    LET D == mx - mn
        X == (den * rad) \div 1000
    IN  IF D <= Abs(mn) \div 100000 THEN TRUE
        ELSE IF D > ((Abs(mn) + X) \div 100000) + 1 THEN FALSE
        ELSE LET L == 100000 * D - Abs(mn)
             IN  /\ L <= X
                 /\ (1000 * L) * (1000 * L) <= den * den * rad

\* _normalize_signal.  A nan element makes max and min nan, isclose false and
\* every quotient nan.
NormalizeSignal(arr) ==
    IF arr.num = <<>> THEN arr
    ELSE IF HasNaN(arr.num)
    THEN [num |-> [i \in DOMAIN arr.num |-> NaN], den |-> 1, rad |-> 1]
    ELSE LET mx == SeqMax(arr.num)
             mn == SeqMin(arr.num)
         IN  IF IsClose(mx, mn, arr.den, arr.rad)
             THEN [num |-> [i \in DOMAIN arr.num |-> 0], den |-> 1, rad |-> 1]
             ELSE [num |-> [i \in DOMAIN arr.num |-> arr.num[i] - mn],
                   den |-> mx - mn, rad |-> 1]

\* candidates["score"]: alpha * user + beta * friends_play + gamma *
\* friends_sim over the common denominator of the three signals and of the
\* weights w = [a, b, c, den]; nan as soon as one signal is nan.
BlendScore(w, us, fp, fs) ==
    IF HasNaN(us.num) \/ HasNaN(fp.num) \/ HasNaN(fs.num)
    THEN [num |-> [i \in DOMAIN us.num |-> NaN], den |-> 1]
    ELSE [num |-> [i \in DOMAIN us.num |->
                      w.a * us.num[i] * fp.den * fs.den
                    + w.b * fp.num[i] * us.den * fs.den
                    + w.c * fs.num[i] * us.den * fp.den],
          den |-> w.den * us.den * fp.den * fs.den]

\* sort_values("score", ascending=False) with the default kind="quicksort",
\* which is not stable: every order of the rows with non-increasing score is
\* a possible result.  nan scores go last, in their original order.
SortOrders(score) ==
    LET n == Len(score.num)
    IN  IF HasNaN(score.num)
        THEN {[i \in 1..n |-> i]}
        ELSE {p \in Perms(n) :
                \A i, j \in 1..n : i < j => score.num[p[i]] >= score.num[p[j]]}

\* DataFrame.head(k): the first k rows, or all but the last -k when k < 0.
HeadCount(n, k) == IF k >= 0 THEN MinOf(k, n) ELSE MaxOf(n + k, 0)

\* The rows recommend returns: the first HeadCount rows of the sorted frame,
\* as (appid, score numerator) over the common denominator score.den.
Ranking(cands, score, order, k) ==
    [i \in 1..HeadCount(Len(cands), k) |->
        [appid |-> cands[order[i]].appid, score |-> score.num[order[i]]]]

NoSignal == [num |-> <<>>, den |-> 1, rad |-> 1]

NoProfile == [some |-> FALSE, v |-> <<>>]

\* A call that raised before returning: status names the exception.
Raised(lib, cands, status, vme, vfr) ==
    [status |-> status, library |-> lib, candidates |-> cands,
     vec_me |-> vme, vec_fr |-> vfr,
     sims_me |-> NoSignal, sims_fr |-> NoSignal, raw_fr |-> NoSignal,
     user_signal |-> NoSignal, friends_play_signal |-> NoSignal,
     friends_sim_signal |-> NoSignal,
     score |-> [num |-> <<>>, den |-> 1], result |-> <<>>]

\* AdvancedRecommender.recommend(my, fr, k, alpha, beta, gamma) on the
\* recommender's catalog and library: the set of its possible outcomes.
\* vectorizer.transform on zero candidate texts raises ValueError (the
\* TF-IDF transformer requires at least one sample).
Recommend(cat, lib, my, fr, k, w) ==
    LET cands == Candidates(cat, lib)
        vme == ProfileVec(cat, my.rows)
        vfr == ProfileVec(cat, fr.rows)
    IN  IF cands = <<>>
        THEN {Raised(lib, cands, "ValueError", NoProfile, NoProfile)}
        ELSE IF CosineRaises(vme)
        THEN {Raised(lib, cands, "ValueError", vme, vfr)}
        ELSE IF CosineRaises(vfr)
        THEN {Raised(lib, cands, "ValueError", vme, vfr)}
        ELSE
        LET sme == Similarities(vme, cands)
            sfr == Similarities(vfr, cands)
            raw == RawFriends(fr, cands)
            us == NormalizeSignal(sme)
            fp == NormalizeSignal(raw)
            fs == NormalizeSignal(sfr)
            score == BlendScore(w, us, fp, fs)
        IN  {[status |-> "ok", library |-> lib, candidates |-> cands,
              vec_me |-> vme, vec_fr |-> vfr,
              sims_me |-> sme, sims_fr |-> sfr, raw_fr |-> raw,
              user_signal |-> us, friends_play_signal |-> fp,
              friends_sim_signal |-> fs,
              score |-> score,
              result |-> Ranking(cands, score, order, k)] :
                order \in SortOrders(score)}

---------------------------------------------------------------------------
\* State.

VARIABLES
    catalog,    \* adv_rec.catalog with its TF-IDF rows: fixed after __init__
    library,    \* adv_rec.library: the shared recommender's owned appids
    call,       \* the last direct call of recommend: its arguments and outcome
    norm,       \* a call of _normalize_signal: its argument and result
    fb,         \* a run of build_recent_playtime_features
    req,        \* the requests in _compute_recommendations
    api_key     \* whether STEAM_API_KEY is set in the server's environment

vars == <<catalog, library, call, norm, fb, req, api_key>>

\* The variables of the parts a specification leaves alone.
NoNorm == [kind |-> "none", arr |-> [num |-> <<>>, den |-> 1, rad |-> 1],
           out |-> [num |-> <<>>, den |-> 1, rad |-> 1]]

NoFb == [pc |-> "none"]

NoReq == <<>>

---------------------------------------------------------------------------
\* Direct calls of recommend (as in the module's smoke test).

Entries(ids, wts) == {[appid |-> a, wt |-> x] : a \in ids, x \in wts}

Lists1(E) == {<<>>} \cup {<<e>> : e \in E}

Lists2(E) == Lists1(E) \cup {<<e, f>> : e \in E, f \in E}

\* A frame of (appid, playtime_2weeks) rows; den divides every weight.
Frame(rows) == [rows |-> rows, den |-> 1]

\* recommend's default arguments.
DefaultK == 10

DefaultWeights == [a |-> 1, b |-> 1, c |-> 1, den |-> 1]

\* alpha, beta, gamma of a direct call.
WeightChoices ==
    {DefaultWeights,
     [a |-> 3, b |-> 2, c |-> 1, den |-> 1],
     [a |-> 0, b |-> 1, c |-> 0, den |-> 1],
     [a |-> 0, b |-> 0, c |-> 0, den |-> 1]}

KChoices == (-1)..(NCatalog + 1)

\* The playtime_2weeks values of well-formed and of malformed rows.
GoodWeights == {1, 2}

AnyWeights == {NaN, -1, 0, 1, 2}

NoCall ==
    [kind |-> "none", my |-> Frame(<<>>), fr |-> Frame(<<>>), k |-> 0,
     w |-> DefaultWeights,
     out |-> Raised({}, <<>>, "none", NoProfile, NoProfile)]

InitRecommender ==
    /\ catalog \in Catalogs
    /\ library \in SUBSET AppIds

\* rec.recommend(my, fr, k, alpha, beta, gamma) with well-formed rows.  A
\* call changes neither the catalog nor the library, so a behaviour shows one.
RecommendCall ==
    /\ call.kind = "none"
    /\ \E my \in Lists1(Entries(Ids, {1})),
       fr \in Lists2(Entries({1, 2}, GoodWeights)),
       k \in KChoices, w \in WeightChoices :
        \E out \in Recommend(catalog, library, Frame(my), Frame(fr), k, w) :
            /\ call' = [kind |-> "call", my |-> Frame(my), fr |-> Frame(fr),
                        k |-> k, w |-> w, out |-> out]
            /\ UNCHANGED <<catalog, library, norm, fb, req, api_key>>

\* rec.recommend(my, fr) with rows of any weight and the default k, alpha,
\* beta, gamma.
RecommendRows ==
    /\ call.kind = "none"
    /\ \E my \in Lists2(Entries(Ids, AnyWeights)),
       fr \in Lists1(Entries(Ids, {NaN, 1})) :
        \E out \in Recommend(catalog, library, Frame(my), Frame(fr),
                             DefaultK, DefaultWeights) :
            /\ call' = [kind |-> "rows", my |-> Frame(my), fr |-> Frame(fr),
                        k |-> DefaultK, w |-> DefaultWeights, out |-> out]
            /\ UNCHANGED <<catalog, library, norm, fb, req, api_key>>

InitRec ==
    /\ InitRecommender
    /\ call = NoCall
    /\ norm = NoNorm
    /\ fb = NoFb
    /\ req = NoReq
    /\ api_key = TRUE

NextRec == RecommendCall \/ RecommendRows

SpecRec == InitRec /\ [][NextRec]_vars

---------------------------------------------------------------------------
\* Properties of a direct call of recommend (SpecRec).

Called == call.kind # "none"

Returned == Called /\ call.out.status = "ok"

\* The number of catalog rows whose appid is not owned.
CandidateCount == Cardinality({i \in DOMAIN catalog : catalog[i].appid \notin library})

\* The position of an appid in the catalog.
CatalogPos(aid) == CHOOSE i \in DOMAIN catalog : catalog[i].appid = aid

\* C1: no item whose id is in the library at the time of the call appears in
\* the ranking recommend returns, whatever the rows, k and weights.
C1_OwnedNeverRanked ==
    Returned =>
        \A i \in DOMAIN call.out.result : call.out.result[i].appid \notin library

\* A call that returned a ranking while the library and the candidates were
\* both non-empty.
C1_Witness ==
    /\ Returned
    /\ library # {}
    /\ Len(call.out.result) = CandidateCount
    /\ CandidateCount >= 1

\* C3 (as claimed): for every k >= 1 recommend returns exactly
\* min(k, candidate_count) rows, and too few candidates is not an error.
C3_LengthIsMin ==
    (Called /\ call.k >= 1) =>
        /\ call.out.status = "ok"
        /\ Len(call.out.result) = MinOf(call.k, CandidateCount)

\* C4 (as claimed): the ranking is in descending score order and two rows of
\* equal score keep their catalog order.
C4_StableDescending ==
    Returned =>
        \A i, j \in DOMAIN call.out.result :
            i < j =>
                LET a == call.out.result[i]
                    b == call.out.result[j]
                IN  /\ a.score = NaN \/ b.score = NaN \/ a.score >= b.score
                    /\ a.score = b.score /\ a.score # NaN
                          => CatalogPos(a.appid) < CatalogPos(b.appid)

\* The first n candidates in catalog order.
FirstCandidates(n) ==
    LET own == {i \in DOMAIN catalog : catalog[i].appid \notin library}
        nth(m) == CHOOSE i \in own : Cardinality({j \in own : j < i}) = m - 1
    IN  [m \in 1..n |-> catalog[nth(m)].appid]

\* C5 (as claimed): with both activity frames empty and k >= 1, every score
\* is 0 and the ranking is the first min(k, candidate_count) candidates in
\* catalog order.
C5_EmptyActivityCatalogOrder ==
    (Called /\ call.my.rows = <<>> /\ call.fr.rows = <<>> /\ call.k >= 1) =>
        /\ call.out.status = "ok"
        /\ \A i \in DOMAIN call.out.score.num : call.out.score.num[i] = 0
        /\ [i \in DOMAIN call.out.result |-> call.out.result[i].appid]
              = FirstCandidates(MinOf(call.k, CandidateCount))

\* The rows of the friends frame that carry an appid.
Matching(aid) == {i \in DOMAIN call.fr.rows : call.fr.rows[i].appid = aid}

\* The sum of the weights of a set of rows of the friends frame (nan when one
\* of them is nan).
RECURSIVE WeightSum(_)
WeightSum(I) ==
    IF I = {} THEN 0
    ELSE LET i == CHOOSE x \in I : TRUE
             rest == WeightSum(I \ {i})
         IN  IF call.fr.rows[i].wt = NaN \/ rest = NaN THEN NaN
             ELSE call.fr.rows[i].wt + rest

\* C7 (as claimed): raw_fr[i] is the sum of the weights of all friends rows
\* whose appid is candidate i's, 0 when there is none, also when several rows
\* carry the same appid.
C7_RawIsSum ==
    Returned =>
        \A i \in DOMAIN call.out.candidates :
            call.out.raw_fr.num[i] = WeightSum(Matching(call.out.candidates[i].appid))

\* C7 (amended): raw_fr[i] is 0 when no friends row carries candidate i's
\* appid and else the weight of the last such row; this is the sum of the
\* weights of those rows whenever at most one row carries the appid.
C7_RawIsLastRow ==
    Returned =>
        \A i \in DOMAIN call.out.candidates :
            LET m == Matching(call.out.candidates[i].appid)
                last == CHOOSE x \in m : \A y \in m : y <= x
            IN  /\ call.out.raw_fr.num[i]
                      = IF m = {} THEN 0 ELSE call.fr.rows[last].wt
                /\ Cardinality(m) <= 1 => call.out.raw_fr.num[i] = WeightSum(m)

\* A returned call whose friends frame has two rows of different weight for
\* one candidate.
C7_Witness ==
    /\ Returned
    /\ \E i \in DOMAIN call.out.candidates :
          LET m == Matching(call.out.candidates[i].appid)
          IN  /\ Cardinality(m) = 2
              /\ \E x, y \in m : call.fr.rows[x].wt # call.fr.rows[y].wt

\* A frame's rows with every negative or nan weight replaced by 0.
Zeroed(rows) ==
    [i \in DOMAIN rows |->
        [appid |-> rows[i].appid,
         wt |-> IF rows[i].wt = NaN \/ rows[i].wt < 0 THEN 0 ELSE rows[i].wt]]

\* C8 (as claimed): a row of negative or non-finite weight contributes to a
\* profile exactly as a row of weight 0, and raises no error.
C8_BadWeightIsZero ==
    (Called /\ call.out.candidates # <<>>) =>
        /\ call.out.status = "ok"
        /\ call.out.vec_me = ProfileVec(catalog, Zeroed(call.my.rows))
        /\ call.out.vec_fr = ProfileVec(catalog, Zeroed(call.fr.rows))

\* No row of the frame carries an appid of the catalog.
NoKnownId(rows) ==
    \A i \in DOMAIN rows : \A j \in DOMAIN catalog : catalog[j].appid # rows[i].appid

AllZero(sig) == \A i \in DOMAIN sig.num : sig.num[i] = 0

\* C9 (as claimed): rows of unknown appid are dropped without an error; with
\* no row of known appid the profile is absent, the similarity signal built
\* on it is 0 for every candidate, and recommend returns a ranking.
C9_AbsentProfileIsZeroSignal ==
    Called =>
        /\ NoKnownId(call.my.rows) =>
              /\ call.out.status = "ok"
              /\ ~call.out.vec_me.some
              /\ AllZero(call.out.sims_me)
              /\ Len(call.out.sims_me.num) = CandidateCount
        /\ NoKnownId(call.fr.rows) =>
              /\ call.out.status = "ok"
              /\ ~call.out.vec_fr.some
              /\ AllZero(call.out.sims_fr)
              /\ Len(call.out.sims_fr.num) = CandidateCount

---------------------------------------------------------------------------
\* _normalize_signal on its own (SpecNorm).

\* The longest array handed to _normalize_signal.
MaxLen == 3

\* Array elements: small values, and two large ones that differ by less than
\* np.isclose's relative tolerance.
NormValues == {-1, 0, 1, 100000, 100001}

RECURSIVE Arrays(_)
Arrays(n) ==
    IF n = 0 THEN {<<>>}
    ELSE Arrays(n - 1)
         \cup {Append(a, x) : a \in {b \in Arrays(n - 1) : Len(b) = n - 1},
                              x \in NormValues}

InitNorm ==
    /\ catalog = CatalogOf(0)
    /\ library = {}
    /\ call = NoCall
    /\ norm = NoNorm
    /\ fb = NoFb
    /\ req = NoReq
    /\ api_key = TRUE

\* _normalize_signal(arr) for an array of finite values num[i] / den.
Normalize ==
    /\ norm.kind = "none"
    /\ \E a \in Arrays(MaxLen), d \in {1, 3} :
          LET arr == [num |-> a, den |-> d, rad |-> 1]
          IN  norm' = [kind |-> "done", arr |-> arr, out |-> NormalizeSignal(arr)]
    /\ UNCHANGED <<catalog, library, call, fb, req, api_key>>

NextNorm == Normalize

SpecNorm == InitNorm /\ [][NextNorm]_vars

NormDone == norm.kind = "done"

\* The argument's greatest and least numerators (0 for the empty array).
ArgMax == IF norm.arr.num = <<>> THEN 0 ELSE SeqMax(norm.arr.num)

ArgMin == IF norm.arr.num = <<>> THEN 0 ELSE SeqMin(norm.arr.num)

RECURSIVE GCD(_, _)
GCD(a, b) == IF b = 0 THEN a ELSE GCD(b, a % b)

\* a / b = c / d for a, c >= 0 and b, d > 0, by lowest terms.
SameQuotient(a, b, c, d) ==
    /\ a \div GCD(a, b) = c \div GCD(c, d)
    /\ b \div GCD(a, b) = d \div GCD(c, d)

\* The result is the array of the values p[i] / q.
OutEquals(p, q) ==
    /\ Len(norm.out.num) = Len(norm.arr.num)
    /\ \A i \in DOMAIN norm.arr.num :
          SameQuotient(norm.out.num[i], norm.out.den, p[i], q)

OutInUnitInterval ==
    \A i \in DOMAIN norm.out.num :
        /\ norm.out.den > 0
        /\ 0 <= norm.out.num[i]
        /\ norm.out.num[i] <= norm.out.den

\* C6 (as claimed): same length, every value in [0,1], empty gives empty,
\* max = min gives zeros, and otherwise each value is (x - min) / (max - min).
C6_MinMaxExact ==
    NormDone =>
        /\ Len(norm.out.num) = Len(norm.arr.num)
        /\ OutInUnitInterval
        /\ IF ArgMax = ArgMin
           THEN OutEquals([i \in DOMAIN norm.arr.num |-> 0], 1)
           ELSE OutEquals([i \in DOMAIN norm.arr.num |-> norm.arr.num[i] - ArgMin],
                          ArgMax - ArgMin)

\* |max - min| <= 1e-8 + 1e-5 * |min| for max = ArgMax / den, min = ArgMin /
\* den: as the numerators are integers and 1e-8 * den < 1e-5, this is
\* 1e5 * (ArgMax - ArgMin) <= |ArgMin|, that is ArgMax - ArgMin <= |ArgMin|
\* div 1e5.
WithinTolerance == ArgMax - ArgMin <= Abs(ArgMin) \div 100000

\* C6 (amended): for an array of finite values the result has the same
\* length and every value in [0,1]; empty gives empty; an array whose max is
\* within np.isclose's tolerance of its min (|max - min| <= 1e-8 + 1e-5 *
\* |min|, which includes max = min) gives zeros; otherwise each value is
\* (x - min) / (max - min).
C6_MinMaxWithTolerance ==
    NormDone =>
        /\ Len(norm.out.num) = Len(norm.arr.num)
        /\ OutInUnitInterval
        /\ IF WithinTolerance
           THEN OutEquals([i \in DOMAIN norm.arr.num |-> 0], 1)
           ELSE /\ OutEquals([i \in DOMAIN norm.arr.num |-> norm.arr.num[i] - ArgMin],
                             ArgMax - ArgMin)
                /\ \E i \in DOMAIN norm.out.num : norm.out.num[i] = 0
                /\ \E i \in DOMAIN norm.out.num : norm.out.num[i] = norm.out.den

\* An array whose max and min differ, within the tolerance, normalized to
\* zeros.
C6_Witness ==
    /\ NormDone
    /\ ArgMax # ArgMin
    /\ WithinTolerance
    /\ Len(norm.out.num) >= 2
    /\ \A i \in DOMAIN norm.out.num : norm.out.num[i] = 0

---------------------------------------------------------------------------
\* build_recent_playtime_features (feature_builder.py).
\*
\* A Steam Web API call ends in one of three ways: "ok" with the games of the
\* response, "api_error" (SteamAPI._request raised SteamAPIError) or
\* "bad_json" (the body is no JSON: r.json() raises ValueError outside
\* _request's handlers).

DEFAULT_FRIEND_LIMIT == 30

MAX_FRIEND_WORKERS == 8

\* The longest friend list Steam returns.
MaxFriends == 2

Game(a, p) == [appid |-> a, playtime_2weeks |-> p]

Ok(games) == [kind |-> "ok", games |-> games]

ApiError == [kind |-> "api_error", games |-> <<>>]

BadJson == [kind |-> "bad_json", games |-> <<>>]

\* What GetRecentlyPlayedGames answers for the user and for a friend.
MyResponses ==
    {ApiError, BadJson, Ok(<<>>), Ok(<<Game(1, 30)>>),
     Ok(<<Game(2, 20), Game(NCatalog + 1, 10)>>)}

FriendResponses ==
    {ApiError, BadJson, Ok(<<>>), Ok(<<Game(1, 10)>>),
     Ok(<<Game(1, 5), Game(2, 7)>>)}

\* STEAM_FRIEND_LIMIT: unset, not an integer, or an integer.
EnvLimits ==
    {[kind |-> "unset", v |-> 0], [kind |-> "bad", v |-> 0]}
    \cup {[kind |-> "int", v |-> n] : n \in (-1)..1}

\* Lines 27-31: int(os.getenv("STEAM_FRIEND_LIMIT", friends_limit)) clamped
\* at 0, and the parameter itself when the value is no integer.
EffectiveLimit(env, friends_limit) ==
    IF env.kind = "int" THEN MaxOf(0, env.v) ELSE MaxOf(0, friends_limit)

\* _fetch_recent in a pool worker without its except clause.
FetchRecentUncaught(resp) ==
    IF resp.kind = "ok"
    THEN [status |-> "ok", rec |-> resp.games, exc |-> "none"]
    ELSE [status |-> "raised", rec |-> <<>>,
          exc |-> IF resp.kind = "api_error" THEN "SteamAPIError" ELSE "ValueError"]

\* _fetch_recent in a pool worker: ("ok", rec), ("error", []) on
\* SteamAPIError, and any other exception is left in the future.
FetchRecent(resp) ==
    IF resp.kind = "ok"
    THEN [status |-> "ok", rec |-> resp.games, exc |-> "none"]
    ELSE IF resp.kind = "api_error"
    THEN [status |-> "error", rec |-> <<>>, exc |-> "none"]
    ELSE [status |-> "raised", rec |-> <<>>, exc |-> "ValueError"]

\* The loop body with a failed fetch skipped without being counted.
AbsorbUncounted(acc, res) ==
    IF res.status # "ok"
    THEN acc
    ELSE [acc EXCEPT
            !.friends_accessible = @ + 1,
            !.friends_with_recent = IF res.rec # <<>> THEN @ + 1 ELSE @,
            !.rows = @ \o res.rec]

\* Lines 62-70: the body of the as_completed loop for one future's result.
Absorb(acc, res) ==
    IF res.status # "ok"
    THEN [acc EXCEPT !.friends_failed = @ + 1]
    ELSE [acc EXCEPT
            !.friends_accessible = @ + 1,
            !.friends_with_recent = IF res.rec # <<>> THEN @ + 1 ELSE @,
            !.rows = @ \o res.rec]

\* The elements of a finite set of integers in increasing order.
RECURSIVE SortedSeq(_)
SortedSeq(S) ==
    IF S = {} THEN <<>>
    ELSE LET m == CHOOSE x \in S : \A y \in S : x <= y
         IN  <<m>> \o SortedSeq(S \ {m})

\* Lines 81-101: the friends rows grouped by appid (sum and count), merged
\* with the user's rows on appid (outer), missing values filled with 0.
FeatureTable(df_my, rows) ==
    LET ids == {df_my[i].appid : i \in DOMAIN df_my}
               \cup {rows[i].appid : i \in DOMAIN rows}
        keys == SortedSeq(ids)
        mine(a) == SeqSum([i \in DOMAIN df_my |->
                      IF df_my[i].appid = a THEN df_my[i].playtime_2weeks ELSE 0])
        theirs(a) == SeqSum([i \in DOMAIN rows |->
                      IF rows[i].appid = a THEN rows[i].playtime_2weeks ELSE 0])
        count(a) == Cardinality({i \in DOMAIN rows : rows[i].appid = a})
    IN  [n \in DOMAIN keys |->
            [appid |-> keys[n], my_playtime |-> mine(keys[n]),
             friends_playtime |-> theirs(keys[n]),
             friends_count |-> count(keys[n])]]

\* Lines 72-80.
Stats(acc, df_my, limit) ==
    [friends_requested |-> acc.friends_requested,
     friends_accessible |-> acc.friends_accessible,
     friends_with_recent |-> acc.friends_with_recent,
     friends_failed |-> acc.friends_failed,
     friend_rows |-> Len(acc.rows),
     my_recent_count |-> Len(df_my),
     friend_limit_effective |-> limit]

\* Lines 44-48: the counters before the pool runs.
NewAcc(n) ==
    [friends_requested |-> n, friends_accessible |-> 0,
     friends_with_recent |-> 0, friends_failed |-> 0, rows |-> <<>>]

NoStats == Stats(NewAcc(0), <<>>, 0)

NoFuture == [state |-> "queued", resp |-> Ok(<<>>), res |-> FetchRecent(Ok(<<>>))]

\* The function has not been entered.
FbEntry ==
    [pc |-> "start", limit |-> 0, df_my |-> <<>>, fut |-> <<>>,
     acc |-> NewAcc(0), feats |-> <<>>, stats |-> NoStats,
     exc |-> "none", cause |-> "none"]

FbRaise(f, exc, cause) == [f EXCEPT !.pc = "raised", !.exc = exc, !.cause = cause]

\* Lines 72-103: the function returns the table and the stats.
FbReturn(f) ==
    [f EXCEPT !.pc = "returned",
              !.feats = FeatureTable(f.df_my, f.acc.rows),
              !.stats = Stats(f.acc, f.df_my, f.limit)]

ExcOf(resp) == IF resp.kind = "api_error" THEN "SteamAPIError" ELSE "ValueError"

\* Lines 26-60: the limit, the user's recent games, the friend list cut at
\* the limit, and one submitted future per friend.  Neither Steam call is
\* guarded, so its exception leaves the function.
FbBegin ==
    /\ fb.pc = "start"
    /\ \E env \in EnvLimits, mine \in MyResponses,
          frs \in {"api_error", "bad_json", "ok"}, n \in 0..MaxFriends :
          LET limit == EffectiveLimit(env, DEFAULT_FRIEND_LIMIT)
              m == MinOf(n, limit)
              entered == [fb EXCEPT !.limit = limit, !.df_my = mine.games,
                                    !.acc = NewAcc(m),
                                    !.fut = [i \in 1..m |-> NoFuture]]
          IN  fb' = IF mine.kind # "ok"
                    THEN FbRaise([fb EXCEPT !.limit = limit], ExcOf(mine), "my_recent")
                    ELSE IF frs # "ok"
                    THEN FbRaise([fb EXCEPT !.limit = limit, !.df_my = mine.games],
                                 IF frs = "api_error" THEN "SteamAPIError"
                                 ELSE "ValueError", "friends_list")
                    ELSE IF m = 0 THEN FbReturn(entered)
                    ELSE [entered EXCEPT !.pc = "pool"]
    /\ UNCHANGED <<catalog, library, call, norm, req, api_key>>

Running == {i \in DOMAIN fb.fut : fb.fut[i].state = "running"}

Queued == {i \in DOMAIN fb.fut : fb.fut[i].state = "queued"}

\* A free pool worker takes the oldest queued future; the pool has
\* min(MAX_FRIEND_WORKERS, friends_requested) workers.
FbStartFetch ==
    /\ fb.pc = "pool"
    /\ Queued # {}
    /\ Cardinality(Running) < MinOf(MAX_FRIEND_WORKERS, Len(fb.fut))
    /\ LET i == CHOOSE x \in Queued : \A y \in Queued : x <= y
       IN  fb' = [fb EXCEPT !.fut[i].state = "running"]
    /\ UNCHANGED <<catalog, library, call, norm, req, api_key>>

\* A worker's _fetch_recent(fid) ends: Steam's answer decides its result.
FbFinishFetch ==
    /\ fb.pc = "pool"
    /\ \E i \in Running, resp \in FriendResponses :
          fb' = [fb EXCEPT !.fut[i] =
                    [state |-> "done", resp |-> resp, res |-> FetchRecent(resp)]]
    /\ UNCHANGED <<catalog, library, call, norm, req, api_key>>

\* as_completed hands the main thread a finished future, in whatever order
\* the futures finish.  fut.result() re-raises the worker's exception; after
\* the last future the function goes on to return.
FbConsume ==
    /\ fb.pc = "pool"
    /\ \E i \in {x \in DOMAIN fb.fut : fb.fut[x].state = "done"} :
          LET res == fb.fut[i].res
              taken == [fb EXCEPT !.fut[i].state = "consumed"]
              next == [taken EXCEPT !.acc = Absorb(fb.acc, res)]
          IN  fb' = IF res.status = "raised"
                    THEN FbRaise(taken, res.exc, "friend")
                    ELSE IF \A x \in DOMAIN next.fut : next.fut[x].state = "consumed"
                    THEN FbReturn(next)
                    ELSE next
    /\ UNCHANGED <<catalog, library, call, norm, req, api_key>>

InitFeat ==
    /\ catalog = CatalogOf(0)
    /\ library = {}
    /\ call = NoCall
    /\ norm = NoNorm
    /\ fb = FbEntry
    /\ req = NoReq
    /\ api_key = TRUE

NextFeat == FbBegin \/ FbStartFetch \/ FbFinishFetch \/ FbConsume

SpecFeat == InitFeat /\ [][NextFeat]_vars

\* The friends whose fetch raised SteamAPIError in its worker.
FailedFriends ==
    {i \in DOMAIN fb.fut : fb.fut[i].state \in {"done", "consumed"}
                           /\ fb.fut[i].resp.kind = "api_error"}

\* The minutes friend i's answer reports for an appid: none when the fetch
\* failed.
PlayedBy(i, a) ==
    IF fb.fut[i].resp.kind # "ok" THEN 0
    ELSE SeqSum([g \in DOMAIN fb.fut[i].resp.games |->
                   IF fb.fut[i].resp.games[g].appid = a
                   THEN fb.fut[i].resp.games[g].playtime_2weeks ELSE 0])

FeatureIds == {fb.feats[n].appid : n \in DOMAIN fb.feats}

PlayedIds ==
    {fb.df_my[g].appid : g \in DOMAIN fb.df_my}
    \cup {a \in Ids : \E i \in DOMAIN fb.fut : PlayedBy(i, a) > 0}

\* C10: a per-friend fetch that raises SteamAPIError in its worker never
\* makes build_recent_playtime_features fail: the function raises only when
\* one of its own two unguarded Steam calls failed or a worker died of
\* another exception, and the table it returns has one row per played appid
\* whose friends_playtime adds up the answers of the friends whose fetch
\* succeeded, a failed friend counting as zero activity.
C10_FriendFailuresTolerated ==
    /\ fb.pc = "raised" =>
          \/ fb.cause \in {"my_recent", "friends_list"}
          \/ /\ fb.cause = "friend"
             /\ fb.exc # "SteamAPIError"
             /\ \E i \in DOMAIN fb.fut : fb.fut[i].resp.kind = "bad_json"
    /\ fb.pc = "returned" =>
          /\ FeatureIds = PlayedIds
          /\ \A n, m \in DOMAIN fb.feats :
                n # m => fb.feats[n].appid # fb.feats[m].appid
          /\ \A n \in DOMAIN fb.feats :
                fb.feats[n].friends_playtime
                   = SeqSum([i \in DOMAIN fb.fut |-> PlayedBy(i, fb.feats[n].appid)])
          /\ fb.stats.friends_failed = Cardinality(FailedFriends)

\* The function returned a table with friends' playtime although a friend's
\* fetch had failed.
C10_Witness ==
    /\ fb.pc = "returned"
    /\ FailedFriends # {}
    /\ \E n \in DOMAIN fb.feats : fb.feats[n].friends_playtime > 0


\* The friends whose fetch answered.
AnsweredFriends == {i \in DOMAIN fb.fut : fb.fut[i].resp.kind = "ok"}

\* C12: whatever the order in which the pool's fetches complete, when
\* build_recent_playtime_features returns every requested friend has been
\* counted exactly once: friends_accessible + friends_failed =
\* friends_requested, friends_with_recent <= friends_accessible, and
\* friends_requested <= the effective friend limit.
C12_EveryFriendCountedOnce ==
    fb.pc = "returned" =>
        /\ fb.stats.friends_requested = Len(fb.fut)
        /\ \A i \in DOMAIN fb.fut : fb.fut[i].state = "consumed"
        /\ fb.stats.friends_accessible = Cardinality(AnsweredFriends)
        /\ fb.stats.friends_failed = Cardinality(FailedFriends)
        /\ fb.stats.friends_accessible + fb.stats.friends_failed
              = fb.stats.friends_requested
        /\ fb.stats.friends_with_recent <= fb.stats.friends_accessible
        /\ fb.stats.friends_with_recent
              = Cardinality({i \in AnsweredFriends : fb.fut[i].resp.games # <<>>})
        /\ fb.stats.friends_requested <= fb.stats.friend_limit_effective
        /\ fb.stats.friend_limit_effective = fb.limit

\* The function returned after a pool of at least two fetches of which one
\* failed and one answered with games.
C12_Witness ==
    /\ fb.pc = "returned"
    /\ fb.stats.friends_requested >= 2
    /\ fb.stats.friends_failed >= 1
    /\ fb.stats.friends_with_recent >= 1

---------------------------------------------------------------------------
\* _compute_recommendations (app.py) on the shared recommender adv_rec.

\* build_recent_playtime_features as one call: the futures' results absorbed
\* in submission order.  The table does not depend on the order in which the
\* futures complete (SpecFeat runs them in every order).
FeatureRun(env, mine, frs, resps) ==
    LET limit == EffectiveLimit(env, DEFAULT_FRIEND_LIMIT)
        m == MinOf(Len(resps), limit)
        res == [i \in 1..m |-> FetchRecent(resps[i])]
        absorbed[i \in 0..m] ==
            IF i = 0 THEN NewAcc(m) ELSE Absorb(absorbed[i - 1], res[i])
    IN  IF mine.kind # "ok" THEN [status |-> ExcOf(mine), feats |-> <<>>]
        ELSE IF frs # "ok"
        THEN [status |-> IF frs = "api_error" THEN "SteamAPIError" ELSE "ValueError",
              feats |-> <<>>]
        ELSE IF \E i \in 1..m : res[i].status = "raised"
        THEN [status |-> "ValueError", feats |-> <<>>]
        ELSE [status |-> "ok", feats |-> FeatureTable(mine.games, absorbed[m].rows)]

\* Lines 28-31: the weights divided by their sum when it is positive.
NormalizeWeights(w) ==
    IF w.a + w.b + w.c > 0 THEN [w EXCEPT !.den = w.a + w.b + w.c] ELSE w

\* Line 33.
CoerceK(k) == MaxOf(1, k)

\* Lines 39-42: the appids of games_df; a frame without rows has no appid
\* column.
LibraryOf(games) == {games[i].appid : i \in DOMAIN games}

\* Lines 55-58 (_normalize): the column divided by its max, zeros when the
\* max is not positive.
NormColumn(vals) ==
    IF SeqMax(vals) > 0 THEN [num |-> vals, den |-> SeqMax(vals)]
    ELSE [num |-> [i \in DOMAIN vals |-> 0], den |-> 1]

\* Lines 50-70: the two activity frames cut from the feature table.
FeatureFrames(feats) ==
    IF feats = <<>>
    THEN [my |-> Frame(<<>>), fr |-> Frame(<<>>)]
    ELSE LET mine == NormColumn([i \in DOMAIN feats |-> feats[i].my_playtime])
             theirs == NormColumn([i \in DOMAIN feats |-> feats[i].friends_playtime])
         IN  [my |-> [rows |-> [i \in DOMAIN feats |->
                                  [appid |-> feats[i].appid, wt |-> mine.num[i]]],
                      den |-> mine.den],
              fr |-> [rows |-> [i \in DOMAIN feats |->
                                  [appid |-> feats[i].appid, wt |-> theirs.num[i]]],
                      den |-> theirs.den]]

\* Lines 74-92: the profile rows taken from the owned games instead, by
\* lifetime playtime, and by weight 1 each when no game has any.
LibraryFallback(games) ==
    LET base == Filter(games, [i \in DOMAIN games |->
                    \A j \in 1..(i - 1) : games[j].appid # games[i].appid])
        played == Filter(base, [i \in DOMAIN base |-> base[i].playtime_forever > 0])
        owned == IF played = <<>>
                 THEN [i \in DOMAIN base |-> [base[i] EXCEPT !.playtime_forever = 1]]
                 ELSE played
    IN  IF owned = <<>> THEN Frame(<<>>)
        ELSE [rows |-> [i \in DOMAIN owned |->
                          [appid |-> owned[i].appid, wt |-> owned[i].playtime_forever]],
              den |-> SeqMax([i \in DOMAIN owned |-> owned[i].playtime_forever])]

\* Lines 72-93: the fallback applies when the recent playtimes sum to 0.
MyFrame(frames, games) ==
    IF SeqSum([i \in DOMAIN frames.my.rows |-> frames.my.rows[i].wt]) = 0
    THEN LibraryFallback(games)
    ELSE frames.my

\* The two requests in flight.
Reqs == {1, 2}

\* The k and the weights a request carries: the endpoint's default weights
\* in hundredths, and all-zero weights.
KRequests == {0, 2}

WRequests ==
    {[a |-> 60, b |-> 25, c |-> 15, den |-> 100],
     [a |-> 0, b |-> 0, c |-> 0, den |-> 100]}

OwnedGame(a, p) == [appid |-> a, playtime_forever |-> p]

\* What GetOwnedGames answers.
OwnedResponses ==
    {ApiError, BadJson, Ok(<<>>), Ok(<<OwnedGame(1, 0)>>),
     Ok([i \in 1..NCatalog |-> OwnedGame(i, 60)])}

\* The recent-playtime answers a request meets: at most one friend.
RequestEnvLimits == {[kind |-> "unset", v |-> 0], [kind |-> "int", v |-> 0]}

RequestMyResponses == {ApiError, Ok(<<>>), Ok(<<Game(2, 20), Game(NCatalog + 1, 10)>>)}

FriendAnswers ==
    {<<>>, <<ApiError>>, <<BadJson>>, <<Ok(<<Game(1, 5), Game(2, 7)>>)>>}

NoOut == Raised({}, <<>>, "none", NoProfile, NoProfile)

IdleRequest ==
    [pc |-> "idle", k_in |-> 0, k |-> 0, w |-> DefaultWeights,
     games |-> <<>>, owned |-> {}, my |-> Frame(<<>>), fr |-> Frame(<<>>),
     out |-> NoOut, exc |-> "none"]

ReqRaise(q, exc) == [q EXCEPT !.pc = "raised", !.exc = exc]

\* Lines 24-33: the API key, the weights, k.
ReqBegin(r) ==
    /\ req[r].pc = "idle"
    /\ \E k \in KRequests, w \in WRequests :
          req' = [req EXCEPT ![r] =
                    IF ~api_key THEN ReqRaise([@ EXCEPT !.k_in = k], "RuntimeError")
                    ELSE [@ EXCEPT !.pc = "owned", !.k_in = k, !.k = CoerceK(k),
                                   !.w = NormalizeWeights(w)]]
    /\ UNCHANGED <<catalog, library, call, norm, fb, api_key>>

\* Lines 35-42: the owned games are fetched and adv_rec.library is
\* reassigned to their appids.
ReqOwned(r) ==
    /\ req[r].pc = "owned"
    /\ \E resp \in OwnedResponses :
          IF resp.kind = "api_error"
          THEN /\ req' = [req EXCEPT ![r] = ReqRaise(@, "UserFacingError")]
               /\ UNCHANGED library
          ELSE IF resp.kind = "bad_json"
          THEN /\ req' = [req EXCEPT ![r] = ReqRaise(@, "ValueError")]
               /\ UNCHANGED library
          ELSE /\ req' = [req EXCEPT ![r] =
                            [@ EXCEPT !.pc = "features", !.games = resp.games,
                                      !.owned = LibraryOf(resp.games)]]
               /\ library' = LibraryOf(resp.games)
    /\ UNCHANGED <<catalog, call, norm, fb, api_key>>

\* Lines 44-93: the feature table is built and the two activity frames are
\* cut from it.
ReqFeatures(r) ==
    /\ req[r].pc = "features"
    /\ \E env \in RequestEnvLimits, mine \in RequestMyResponses,
          frs \in {"api_error", "bad_json", "ok"}, resps \in FriendAnswers :
          LET run == FeatureRun(env, mine, frs, resps)
              frames == FeatureFrames(run.feats)
          IN  req' = [req EXCEPT ![r] =
                        IF run.status = "SteamAPIError"
                        THEN ReqRaise(@, "UserFacingError")
                        ELSE IF run.status # "ok" THEN ReqRaise(@, run.status)
                        ELSE [@ EXCEPT !.pc = "recommend",
                                       !.my = MyFrame(frames, req[r].games),
                                       !.fr = frames.fr]]
    /\ UNCHANGED <<catalog, library, call, norm, fb, api_key>>

\* Lines 95-102: adv_rec.recommend runs on the library adv_rec holds now.
ReqRecommend(r) ==
    /\ req[r].pc = "recommend"
    /\ \E out \in Recommend(catalog, library, req[r].my, req[r].fr,
                            req[r].k, req[r].w) :
          req' = [req EXCEPT ![r] =
                    IF out.status = "ok"
                    THEN [@ EXCEPT !.pc = "unpack", !.out = out]
                    ELSE [@ EXCEPT !.pc = "raised", !.out = out, !.exc = out.status]]
    /\ UNCHANGED <<catalog, library, call, norm, fb, api_key>>

\* Line 95: the returned frame is unpacked into two names; iterating a frame
\* yields its three column labels, so the assignment raises ValueError.
ReqUnpack(r) ==
    /\ req[r].pc = "unpack"
    /\ req' = [req EXCEPT ![r] = ReqRaise(@, "ValueError")]
    /\ UNCHANGED <<catalog, library, call, norm, fb, api_key>>

\* The server starts with the catalog loaded and adv_rec.library == [].
Init ==
    /\ catalog \in {CatalogOf(0), CatalogOf(2)}
    /\ library = {}
    /\ call = NoCall
    /\ norm = NoNorm
    /\ fb = NoFb
    /\ req = [r \in Reqs |-> IdleRequest]
    /\ api_key \in BOOLEAN

Next ==
    \E r \in Reqs :
        \/ ReqBegin(r)
        \/ ReqOwned(r)
        \/ ReqFeatures(r)
        \/ ReqRecommend(r)
        \/ ReqUnpack(r)

Spec == Init /\ [][Next]_vars

---------------------------------------------------------------------------
\* Properties of two requests on the shared recommender (Spec).

\* The request has called adv_rec.recommend.
Scored(r) == req[r].out.status # "none"

\* C2 (as claimed): in any interleaving of two requests, the library that
\* filters the candidates of a request's recommend call is the appids of the
\* owned games that same request fetched.
C2_OwnLibraryFilters ==
    \A r \in Reqs : Scored(r) => req[r].out.library = req[r].owned

\* C11 (as claimed): once the API key is set and the owned games and the
\* activity have been retrieved, a request whose recommend call returned a
\* ranking completes without raising.
C11_CompletesWithRanking ==
    \A r \in Reqs :
        (Scored(r) /\ req[r].out.status = "ok") => req[r].pc # "raised"

====
